---- MODULE Spec2Model ----
(***************************************************************************)
(* Model of the GPT PR review action: main() of src/index.js (the          *)
(* CommonJS implementation, impl = "js") and of src/unnamed/part_000 (the  *)
(* TypeScript implementation, impl = "ts").  A run of main is a sequence   *)
(* of steps, one per await; the synchronous code between two awaits is     *)
(* part of the step that ends at the second.  A run is a workflow job on   *)
(* a runner: the jobs of one runner run one after another, the jobs of     *)
(* different runners may overlap, and all of them act on one shared store  *)
(* of pull-request comments.  The locals and the recorded calls of a run   *)
(* are those of the runner's current job.                                  *)
(*                                                                         *)
(* Strings that the code inspects (ref, comment body, completion content)  *)
(* are sequences of one-character strings.  Messages that the code only    *)
(* builds (error messages, log lines) are sequences of pieces.  A value    *)
(* that may be null/undefined is None (<<>>) or Some(v) (<<v>>).           *)
(* core.info lines that only narrate a step, and the model identifier that *)
(* is handed unchanged to the completion request, are left out.            *)
(***************************************************************************)
EXTENDS Naturals, Sequences, FiniteSets

\* ------------------------------------------------------------- bounds
\* Number of runners, each running one job (one run of main) at a time.
NumRuns == 2
\* Number of jobs started in a behaviour.
MaxJobs == 2
\* Longest list of comments a pull request holds before the first run.
MaxPrior == 2
\* Comments returned by one un-paginated issues.listComments call.  The
\* endpoint's default page size is 30; the model scales it down.
PerPage == 2

Runs == 1..NumRuns

\* ------------------------------------------------------------ strings
None == <<>>
Some(v) == <<v>>
IsNone(o) == o = <<>>
Get(o) == o[1]

Min(a, b) == IF a <= b THEN a ELSE b

\* String.prototype.startsWith
StartsWith(s, p) == Len(s) >= Len(p) /\ SubSeq(s, 1, Len(p)) = p

\* String.prototype.includes
Includes(s, t) ==
  \E i \in 0..Len(s) : i + Len(t) <= Len(s) /\ SubSeq(s, i + 1, i + Len(t)) = t

IsSpace(c) == c \in {" ", "\n", "\t"}

RECURSIVE TrimStart(_)
TrimStart(s) ==
  IF s # <<>> /\ IsSpace(Head(s)) THEN TrimStart(Tail(s)) ELSE s

RECURSIVE TrimEnd(_)
TrimEnd(s) ==
  IF s # <<>> /\ IsSpace(s[Len(s)]) THEN TrimEnd(SubSeq(s, 1, Len(s) - 1)) ELSE s

\* String.prototype.trim
Trim(s) == TrimEnd(TrimStart(s))

\* ---------------------------------------------------------- constants
\* '<!-- GPT-BOT-COMMENT -->'
Marker == <<"<","!","-","-"," ","G","P","T","-","B","O","T","-","C","O","M","M","E","N","T"," ","-","-",">">>

\* 'refs/heads/'
RefPrefix == <<"r","e","f","s","/","h","e","a","d","s","/">>

\* github.context.repo.owner
Owner == <<"o">>

NoDiffOutput == "No differences found."

\* The fixed instruction that precedes the diff in the prompt.
PromptPreamble ==
  <<"Check this PR code, find logic issues not easily found by static analysis tools, order them by severity.\n\nPlease review the following diff:\n">>

\* const userPrompt = `...${diff}\n`
UserPrompt(diff) == PromptPreamble \o diff \o <<"\n">>

\* const commentBody = `<!-- GPT-BOT-COMMENT -->\n${feedback}`
CommentBody(feedback) == Marker \o <<"\n">> \o feedback

\* ------------------------------------------------------------- inputs
\* github.context.ref: undefined, the empty string, a branch, a tag, a
\* pull-request merge ref.
Refs ==
  { None,
    Some(<<>>),
    Some(<<"r","e","f","s","/","h","e","a","d","s","/","x">>),
    Some(<<"r","e","f","s","/","t","a","g","s","/","v","1">>),
    Some(<<"x","/","r","e","f","s","/","h","e","a","d","s","/">>) }

\* The required input that core.getInput finds missing, if any.
MissingInputs == {"none", "github_token", "openai_token"}

\* stdout of git diff.
Diffs == { <<>>, <<"+","a">> }

Choice(content) == [message |-> Some([content |-> Some(content)])]

\* Bodies of the completion response (response.data / chatCompletion).
Completions ==
  { [choices |-> <<>>],
    [choices |-> << [message |-> None] >>],
    [choices |-> << [message |-> Some([content |-> None])] >>],
    [choices |-> << Choice(<<" "," ">>) >>],
    [choices |-> << Choice(<<"L","o","o","k","s"," ","f","i","n","e",".">>) >>],
    [choices |-> << Choice(<<" ","L","o","o","k","s"," ","f","i","n","e",".","\n">>),
                    Choice(<<"o","k">>) >> ] }

\* Results of pulls.list for the branch.
PullLists == { <<>>, << [number |-> 42] >>, << [number |-> 7], [number |-> 42] >> }

\* Comments other accounts may have left on pull request 42 before the
\* first run: a person's
\* comment, a person quoting the marker, another bot's comment, a comment
\* whose author is null, a bot comment without a body.
PriorKinds ==
  { [user |-> Some("User"), body |-> Some(<<"h","i">>)],
    [user |-> Some("User"), body |-> Some(Marker \o <<"\n","h","i">>)],
    [user |-> Some("Bot"), body |-> Some(<<"c","i">>)],
    [user |-> None, body |-> Some(<<"h","i">>)],
    [user |-> Some("Bot"), body |-> None] }

\* The account type of the comments the action's token writes: the
\* workflow passes secrets.GITHUB_TOKEN, an app (Bot) identity.
TokenUserType == "Bot"

RECURSIVE SeqsUpTo(_, _)
SeqsUpTo(S, n) ==
  IF n = 0 THEN { <<>> }
  ELSE LET shorter == SeqsUpTo(S, n - 1)
       IN shorter \cup { Append(s, x) : s \in shorter, x \in S }

\* --------------------------------------------------------------- state
VARIABLES
  impl,        \* "js" (src/index.js) or "ts" (src/unnamed/part_000)
  jobs,        \* number of jobs started so far
  ref,         \* github.context.ref of each run
  missing,     \* the required input the run was started without, or "none"
  comments,    \* every issue comment of the repository, in creation order
  pc,          \* each run's position in main
  branch,      \* main's const branch
  diff,        \* main's const diff
  response,    \* the completion response generateFeedback received
  feedback,    \* main's const feedback
  pullRequests,\* the list findOpenPullRequest received
  prNumber,    \* main's const prNumber
  botComment,  \* main's const botComment
  calls,       \* external calls the run has issued, in order
  output,      \* core.setOutput calls of the run
  failed,      \* core.setFailed calls of the run
  log          \* core.warning / core.error lines and the closing core.info lines

vars == <<impl, jobs, ref, missing, comments, pc, branch, diff, response, feedback,
          pullRequests, prNumber, botComment,
          calls, output, failed, log>>

Call(op, num, body, ok) == [op |-> op, num |-> num, body |-> body, ok |-> ok]

\* A thrown Error carries a message.
ErrorMessage(op) == <<"error: ", op>>
TypeErrorMessage == <<"Cannot read properties of undefined">>

Init ==
  /\ impl \in {"js", "ts"}
  /\ jobs = 0
  /\ \E prior \in SeqsUpTo(PriorKinds, MaxPrior) :
       comments = [i \in 1..Len(prior) |->
                     [id |-> i, issue |-> 42,
                      user |-> prior[i].user, body |-> prior[i].body]]
  /\ ref = [r \in Runs |-> None]
  /\ missing = [r \in Runs |-> "none"]
  /\ response = [r \in Runs |-> None]
  /\ pullRequests = [r \in Runs |-> None]
  /\ pc = [r \in Runs |-> "idle"]
  /\ branch = [r \in Runs |-> <<>>]
  /\ diff = [r \in Runs |-> <<>>]
  /\ feedback = [r \in Runs |-> <<>>]
  /\ prNumber = [r \in Runs |-> None]
  /\ botComment = [r \in Runs |-> None]
  /\ calls = [r \in Runs |-> <<>>]
  /\ output = [r \in Runs |-> <<>>]
  /\ failed = [r \in Runs |-> <<>>]
  /\ log = [r \in Runs |-> <<>>]

\* ---------------------------------------------------- pure parts of main
\* !ref || !ref.startsWith('refs/heads/'), negated
RefIsValid_Includes(rf) == ~IsNone(rf) /\ Get(rf) # <<>> /\ Includes(Get(rf), RefPrefix)
RefIsValid(rf) == ~IsNone(rf) /\ Get(rf) # <<>> /\ StartsWith(Get(rf), RefPrefix)

\* `${ref}`
RefText(rf) == IF IsNone(rf) THEN <<"undefined">> ELSE Get(rf)

InvalidRefMessage(rf) ==
  <<"GITHUB_REF is not a valid branch reference: ">> \o RefText(rf)

\* s.replace(t, ''): the first occurrence of t removed
ReplaceFirst(s, t) ==
  IF ~Includes(s, t) THEN s
  ELSE LET i == CHOOSE k \in 0..Len(s) :
                  /\ k + Len(t) <= Len(s)
                  /\ SubSeq(s, k + 1, k + Len(t)) = t
                  /\ \A j \in 0..(k - 1) : SubSeq(s, j + 1, j + Len(t)) # t
       IN SubSeq(s, 1, i) \o SubSeq(s, i + Len(t) + 1, Len(s))

\* const branch = ref.replace('refs/heads/', '')
BranchOf(rf) == ReplaceFirst(Get(rf), RefPrefix)

\* if (!diff)
DiffIsEmpty_Never(d) == FALSE
DiffIsEmpty(d) == d = <<>>

Returned(v) == [thrown |-> FALSE, value |-> v]
Thrown == [thrown |-> TRUE, value |-> <<>>]

\* js: response.data.choices[0].message.content.trim()
\* ts: chatCompletion.choices[0].message?.content?.trim() || ''
ExtractContent(i, resp) ==
  IF resp.choices = <<>> THEN Thrown
  ELSE LET message == resp.choices[1].message
       IN IF IsNone(message)
          THEN (IF i = "js" THEN Thrown ELSE Returned(<<>>))
          ELSE IF IsNone(Get(message).content)
          THEN (IF i = "js" THEN Thrown ELSE Returned(<<>>))
          ELSE Returned(Trim(Get(Get(message).content)))

\* pullRequests.length === 0 ? null : pullRequests[0].number
PullNumberOf_Last(pulls) ==
  IF Len(pulls) = 0 THEN None ELSE Some(pulls[Len(pulls)].number)
PullNumberOf(pulls) ==
  IF Len(pulls) = 0 THEN None ELSE Some(pulls[1].number)

\* The comments of one issue, in creation order.
RECURSIVE CommentsOf(_, _)
CommentsOf(cs, issue) ==
  IF cs = <<>> THEN <<>>
  ELSE IF Head(cs).issue = issue
       THEN <<Head(cs)>> \o CommentsOf(Tail(cs), issue)
       ELSE CommentsOf(Tail(cs), issue)

\* issues.listComments({owner, repo, issue_number}): no page and no
\* per_page are given, so the first page is returned.
FirstPage(cs) == SubSeq(cs, 1, Min(Len(cs), PerPage))

\* js: comment.user.type === 'Bot' && comment.body.includes(marker)
\* ts: comment.user?.type === 'Bot' && comment.body?.includes(marker)
\* The result is "throw", "match" or "skip".
TestComment(i, c) ==
  IF IsNone(c.user) THEN (IF i = "js" THEN "throw" ELSE "skip")
  ELSE IF Get(c.user) # "Bot" THEN "skip"
  ELSE IF IsNone(c.body) THEN (IF i = "js" THEN "throw" ELSE "skip")
  ELSE IF Includes(Get(c.body), Marker) THEN "match" ELSE "skip"

\* comments.find(...): the first comment that passes the test
RECURSIVE Find(_, _)
Find(i, cs) ==
  IF cs = <<>> THEN Returned(None)
  ELSE LET t == TestComment(i, Head(cs))
       IN IF t = "throw" THEN Thrown
          ELSE IF t = "match" THEN Returned(Some(Head(cs)))
          ELSE Find(i, Tail(cs))

\* ------------------------------------------------------------ the steps
\* catch (error): js logs nothing; ts logs the error (four lines for an
\* OpenAI.APIError, one otherwise); both then call core.setFailed.
CatchLog(i, msg, api) ==
  IF i = "js" THEN <<>>
  ELSE IF api
  THEN << [level |-> "error", text |-> <<"OpenAI API Error: ">> \o msg],
          [level |-> "error", text |-> <<"Status: ">>],
          [level |-> "error", text |-> <<"Code: ">>],
          [level |-> "error", text |-> <<"Type: ">>] >>
  ELSE << [level |-> "error", text |-> <<"Non-API error: ">> \o msg] >>

FailedMessage(msg) == <<"An error occurred: ">> \o msg

CatchFrom(r, fs, ls, msg, api) ==
  /\ failed' = [failed EXCEPT ![r] = Append(fs, FailedMessage(msg))]
  /\ log' = [log EXCEPT ![r] = ls \o CatchLog(impl, msg, api)]
  /\ pc' = [pc EXCEPT ![r] = "done"]

Catch_NoStop(r, msg, api) ==
  /\ failed' = [failed EXCEPT ![r] = Append(@, FailedMessage(msg))]
  /\ log' = [log EXCEPT ![r] = @ \o CatchLog(impl, msg, api)]
  /\ UNCHANGED pc
Catch(r, msg, api) == CatchFrom(r, failed[r], log[r], msg, api)

Issue(r, c) == calls' = [calls EXCEPT ![r] = Append(@, c)]

\* main, up to its first await: the inputs, the clients, the ref.  A job
\* starts on a runner that has none under way, with fresh locals.
mainStart(r) ==
  /\ pc[r] \in {"idle", "done"}
  /\ jobs < MaxJobs
  /\ jobs' = jobs + 1
  /\ \E m \in MissingInputs, rf \in Refs :
       /\ ref' = [ref EXCEPT ![r] = rf]
       /\ missing' = [missing EXCEPT ![r] = m]
       /\ IF m # "none"
          THEN /\ CatchFrom(r, <<>>, <<>>, <<"Input required and not supplied: ", m>>, FALSE)
               /\ branch' = [branch EXCEPT ![r] = <<>>]
          ELSE IF ~RefIsValid(rf)
          THEN /\ CatchFrom(r, <<>>, <<>>, InvalidRefMessage(rf), FALSE)
               /\ branch' = [branch EXCEPT ![r] = <<>>]
          ELSE /\ branch' = [branch EXCEPT ![r] = BranchOf(rf)]
               /\ pc' = [pc EXCEPT ![r] = "fetch"]
               /\ failed' = [failed EXCEPT ![r] = <<>>]
               /\ log' = [log EXCEPT ![r] = <<>>]
  /\ diff' = [diff EXCEPT ![r] = <<>>]
  /\ response' = [response EXCEPT ![r] = None]
  /\ feedback' = [feedback EXCEPT ![r] = <<>>]
  /\ pullRequests' = [pullRequests EXCEPT ![r] = None]
  /\ prNumber' = [prNumber EXCEPT ![r] = None]
  /\ botComment' = [botComment EXCEPT ![r] = None]
  /\ calls' = [calls EXCEPT ![r] = <<>>]
  /\ output' = [output EXCEPT ![r] = <<>>]
  /\ UNCHANGED <<impl, comments>>

\* await execAsync('git fetch origin main')
fetchMainBranch(r) ==
  /\ pc[r] = "fetch"
  /\ \E ok \in BOOLEAN :
       /\ Issue(r, Call("git fetch", 0, <<"origin main">>, ok))
       /\ IF ok
          THEN pc' = [pc EXCEPT ![r] = "diff"] /\ UNCHANGED <<failed, log>>
          ELSE Catch(r, ErrorMessage("git fetch"), FALSE)
  /\ UNCHANGED <<impl, jobs, ref, missing, comments, branch, diff, response, feedback,
                 pullRequests, prNumber, botComment, output>>

\* generateDiff and main's if (!diff)
generateDiff(r) ==
  /\ pc[r] = "diff"
  /\ \E ok \in BOOLEAN, stdout \in Diffs, stderr \in BOOLEAN :
       LET warned == IF stderr
                     THEN << [level |-> "warning",
                              text |-> <<"Standard error while generating diff: ">>] >>
                     ELSE <<>>
       IN
       /\ Issue(r, Call("git diff", 0, <<"--inter-hunk-context=1000 origin/main...HEAD">>, ok))
       /\ IF ~ok
          THEN /\ Catch(r, ErrorMessage("git diff"), FALSE)
               /\ UNCHANGED <<diff, output>>
          ELSE IF DiffIsEmpty(stdout)
          THEN /\ diff' = [diff EXCEPT ![r] = stdout]
               /\ output' = [output EXCEPT ![r] =
                               Append(@, [name |-> "feedback", value |-> NoDiffOutput])]
               /\ log' = [log EXCEPT ![r] = @ \o warned \o
                            << [level |-> "info",
                                text |-> <<"No differences found between main and current branch.">>] >>]
               /\ pc' = [pc EXCEPT ![r] = "done"]
               /\ UNCHANGED failed
          ELSE /\ diff' = [diff EXCEPT ![r] = stdout]
               /\ log' = [log EXCEPT ![r] = @ \o warned]
               /\ pc' = [pc EXCEPT ![r] = "review"]
               /\ UNCHANGED <<failed, output>>
  /\ UNCHANGED <<impl, jobs, ref, missing, comments, branch, response, feedback,
                 pullRequests, prNumber, botComment>>

\* generateFeedback
generateFeedback(r) ==
  /\ pc[r] = "review"
  /\ \/ /\ Issue(r, Call("createChatCompletion", 0, UserPrompt(diff[r]), FALSE))
        /\ Catch(r, ErrorMessage("createChatCompletion"), TRUE)
        /\ UNCHANGED <<response, feedback>>
     \/ \E resp \in Completions :
          LET res == ExtractContent(impl, resp)
          IN /\ Issue(r, Call("createChatCompletion", 0, UserPrompt(diff[r]), TRUE))
             /\ response' = [response EXCEPT ![r] = Some(resp)]
             /\ IF res.thrown
                THEN Catch(r, TypeErrorMessage, FALSE) /\ UNCHANGED feedback
                ELSE /\ feedback' = [feedback EXCEPT ![r] = res.value]
                     /\ pc' = [pc EXCEPT ![r] = "locate"]
                     /\ UNCHANGED <<failed, log>>
  /\ UNCHANGED <<impl, jobs, ref, missing, comments, branch, diff, pullRequests, prNumber,
                 botComment, output>>

\* findOpenPullRequest and main's if (!prNumber)
findOpenPullRequest(r) ==
  /\ pc[r] = "locate"
  /\ LET head == Owner \o <<":">> \o branch[r]
     IN \/ /\ Issue(r, Call("pulls.list", 0, head, FALSE))
           /\ Catch(r, ErrorMessage("pulls.list"), FALSE)
           /\ UNCHANGED <<pullRequests, prNumber>>
        \/ \E pulls \in PullLists :
             LET n == PullNumberOf(pulls)
             IN /\ Issue(r, Call("pulls.list", 0, head, TRUE))
                /\ pullRequests' = [pullRequests EXCEPT ![r] = Some(pulls)]
                /\ prNumber' = [prNumber EXCEPT ![r] = n]
                /\ IF IsNone(n)
                   THEN /\ log' = [log EXCEPT ![r] = @ \o
                                    << [level |-> "warning", text |-> <<"No open PR found for branch">>],
                                       [level |-> "warning", text |-> <<"Cannot proceed without an open PR.">>] >>]
                        /\ pc' = [pc EXCEPT ![r] = "done"]
                   ELSE /\ pc' = [pc EXCEPT ![r] = "find"]
                        /\ UNCHANGED log
                /\ UNCHANGED failed
  /\ UNCHANGED <<impl, jobs, ref, missing, comments, branch, diff, response, feedback,
                 botComment, output>>

\* findExistingBotComment
findExistingBotComment(r) ==
  /\ pc[r] = "find"
  /\ LET n == Get(prNumber[r])
     IN \/ /\ Issue(r, Call("issues.listComments", n, <<>>, FALSE))
           /\ Catch(r, ErrorMessage("issues.listComments"), FALSE)
           /\ UNCHANGED botComment
        \/ LET res == Find(impl, FirstPage(CommentsOf(comments, n)))
           IN /\ Issue(r, Call("issues.listComments", n, <<>>, TRUE))
              /\ IF res.thrown
                 THEN Catch(r, TypeErrorMessage, FALSE) /\ UNCHANGED botComment
                 ELSE /\ botComment' = [botComment EXCEPT ![r] = res.value]
                      /\ pc' = [pc EXCEPT ![r] = "publish"]
                      /\ UNCHANGED <<failed, log>>
  /\ UNCHANGED <<impl, jobs, ref, missing, comments, branch, diff, response, feedback,
                 pullRequests, prNumber, output>>

\* issues.updateComment on the server: the comment's body is replaced.
UpdateBody(cs, id, body) ==
  [k \in 1..Len(cs) |-> IF cs[k].id = id THEN [cs[k] EXCEPT !.body = Some(body)] ELSE cs[k]]

\* issues.createComment on the server: a new comment, with a new id, last.
AddComment(cs, issue, body) ==
  Append(cs, [id |-> Len(cs) + 1, issue |-> issue,
              user |-> Some(TokenUserType), body |-> Some(body)])

Posted(r) ==
  /\ log' = [log EXCEPT ![r] =
               Append(@, [level |-> "info", text |-> <<"Comment posted successfully.">>])]
  /\ pc' = [pc EXCEPT ![r] = "done"]
  /\ UNCHANGED failed

\* updateOrCreateBotComment
updateOrCreateBotComment(r) ==
  /\ pc[r] = "publish"
  /\ LET commentBody == CommentBody(feedback[r])
     IN IF ~IsNone(botComment[r])
        THEN LET id == Get(botComment[r]).id
             IN \/ /\ Issue(r, Call("issues.updateComment", id, commentBody, TRUE))
                   /\ comments' = UpdateBody(comments, id, commentBody)
                   /\ Posted(r)
                \/ /\ Issue(r, Call("issues.updateComment", id, commentBody, FALSE))
                   /\ Catch(r, ErrorMessage("issues.updateComment"), FALSE)
                   /\ UNCHANGED comments
        ELSE LET n == Get(prNumber[r])
             IN \/ /\ Issue(r, Call("issues.createComment", n, commentBody, TRUE))
                   /\ comments' = AddComment(comments, n, commentBody)
                   /\ Posted(r)
                \/ /\ Issue(r, Call("issues.createComment", n, commentBody, FALSE))
                   /\ Catch(r, ErrorMessage("issues.createComment"), FALSE)
                   /\ UNCHANGED comments
  /\ UNCHANGED <<impl, jobs, ref, missing, branch, diff, response, feedback, pullRequests,
                 prNumber, botComment, output>>

\* A step of a run after its start.
Step(r) ==
  \/ fetchMainBranch(r)
  \/ generateDiff(r)
  \/ generateFeedback(r)
  \/ findOpenPullRequest(r)
  \/ findExistingBotComment(r)
  \/ updateOrCreateBotComment(r)

\* Jobs on every runner: they may overlap.
Next == \E r \in Runs : mainStart(r) \/ Step(r)

Spec == Init /\ [][Next]_vars

\* Jobs on one runner: they run one after another.
NextSeq == mainStart(1) \/ Step(1)

SpecSeq == Init /\ [][NextSeq]_vars

\* ----------------------------------------------------------- properties
Ops(r) == { calls[r][k].op : k \in DOMAIN calls[r] }

CallsOf(r, op) == { k \in DOMAIN calls[r] : calls[r][k].op = op }

Succeeded(r, op) == \E k \in CallsOf(r, op) : calls[r][k].ok

CommentOps == {"issues.listComments", "issues.updateComment", "issues.createComment"}

RemoteOps == {"createChatCompletion", "pulls.list"} \cup CommentOps

NetworkOps == {"git fetch"} \cup RemoteOps

FeedbackOutput == [name |-> "feedback", value |-> "No differences found."]

\* The git diff command of run r succeeded with empty output.
EmptyDiffRun(r) == Succeeded(r, "git diff") /\ diff[r] = <<>>

\* C1: in every run whose git diff succeeds with empty output, the output
\* feedback is set (once) to "No differences found.", the run has ended
\* without a failed status, and it has issued no completion request, no
\* pull-request listing and no comment listing, update or creation.
C1_EmptyDiffShortCircuits ==
  \A r \in Runs :
    EmptyDiffRun(r) =>
      /\ output[r] = << FeedbackOutput >>
      /\ pc[r] = "done"
      /\ failed[r] = <<>>
      /\ Ops(r) \cap RemoteOps = {}

C1_Witness ==
  \E r \in Runs : EmptyDiffRun(r) /\ pc[r] = "done" /\ Len(calls[r]) = 2

Last(s) == s[Len(s)]

\* A comment whose author type is Bot and whose body contains the marker.
IsBotMarker(c) ==
  /\ c.user = Some("Bot")
  /\ ~IsNone(c.body)
  /\ Includes(Get(c.body), Marker)

\* The bot-authored, marker-tagged comments of a pull request, in list order.
BotMarkerIds(pr) ==
  LET cs == CommentsOf(comments, pr)
  IN { cs[k].id : k \in { j \in DOMAIN cs : IsBotMarker(cs[j]) } }

FirstBotMarker(pr) ==
  LET cs == CommentsOf(comments, pr)
      k == CHOOSE j \in DOMAIN cs :
             IsBotMarker(cs[j]) /\ \A i \in 1..(j - 1) : ~IsBotMarker(cs[i])
  IN cs[k]

\* Run r takes its comment-listing step and the listing call succeeds.
ListingStep(r) ==
  /\ pc[r] = "find"
  /\ pc'[r] # "find"
  /\ Last(calls'[r]).ok

\* Run r takes its comment-writing step.
WritingStep(r) == pc[r] = "publish" /\ pc'[r] # "publish"

\* The one call a writing step adds to the run's calls.
Wrote(r, op, num, body) ==
  /\ Len(calls'[r]) = Len(calls[r]) + 1
  /\ SubSeq(calls'[r], 1, Len(calls[r])) = calls[r]
  /\ Last(calls'[r]).op = op
  /\ Last(calls'[r]).num = num
  /\ Last(calls'[r]).body = body

\* C2: whenever the comments of the target pull request include a
\* bot-authored, marker-tagged comment, publishing (the listing and the
\* write) issues exactly one updateComment call, addressed to the first such
\* comment in list order, with body marker, newline, feedback, and issues no
\* createComment call.
C2_ExistingCommentIsUpdated ==
  [][\A r \in Runs :
       /\ (ListingStep(r) /\ BotMarkerIds(Get(prNumber[r])) # {})
            => /\ pc'[r] = "publish"
               /\ botComment'[r] = Some(FirstBotMarker(Get(prNumber[r])))
       /\ (WritingStep(r) /\ ~IsNone(botComment[r]))
            => Wrote(r, "issues.updateComment", Get(botComment[r]).id,
                     Marker \o <<"\n">> \o feedback[r])]_vars

\* C3: whenever no comment of the target pull request is both bot-authored
\* and marker-tagged, publishing issues exactly one createComment call on
\* that pull request with body marker, newline, feedback, and issues no
\* updateComment call.
C3_NoExistingCommentCreates ==
  [][\A r \in Runs :
       /\ (ListingStep(r) /\ BotMarkerIds(Get(prNumber[r])) = {})
            => /\ pc'[r] = "publish"
               /\ IsNone(botComment'[r])
       /\ (WritingStep(r) /\ IsNone(botComment[r]))
            => Wrote(r, "issues.createComment", Get(prNumber[r]),
                     Marker \o <<"\n">> \o feedback[r])]_vars

PullNumbers == {7, 42}

\* C4: after any number of complete runs executed one after another, a pull
\* request that started without a bot-authored marker comment holds at most
\* one, however many other comments it holds: the first run creates it and
\* every later run updates it instead of adding another.
C4_OneBotCommentSequential ==
  \A pr \in PullNumbers : Cardinality(BotMarkerIds(pr)) <= 1

\* C10: at most one bot-authored, marker-tagged comment exists per pull
\* request in every reachable state, also when runs overlap.  It is stated
\* for the pull requests whose comments fit the page one listing returns,
\* where each run's listing is complete and only the interleaving of the
\* runs' listings and writes can break it.
C10_OneBotCommentOverlapping ==
  \A pr \in PullNumbers :
    Len(CommentsOf(comments, pr)) <= PerPage => Cardinality(BotMarkerIds(pr)) <= 1

\* The ref is absent or does not start with refs/heads/.
RefInvalid(rf) == IsNone(rf) \/ ~StartsWith(Get(rf), RefPrefix)

EndsWith(s, e) == Len(s) >= Len(e) /\ SubSeq(s, Len(s) - Len(e) + 1, Len(s)) = e

\* The failure message is about the ref and quotes it.
NamesRef(msg, rf) ==
  /\ \E k \in DOMAIN msg : msg[k] = "GITHUB_REF is not a valid branch reference: "
  /\ EndsWith(msg, IF IsNone(rf) THEN <<"undefined">> ELSE Get(rf))

Started(r) == pc[r] # "idle"

\* C5 as stated: a run whose ref is absent or does not start with
\* refs/heads/ ends with a failed status whose message names the ref, and
\* makes no network call.
C5_InvalidRefFailsNamingRef ==
  \A r \in Runs :
    (Started(r) /\ RefInvalid(ref[r])) =>
      /\ pc[r] = "done"
      /\ Len(failed[r]) = 1
      /\ NamesRef(failed[r][1], ref[r])
      /\ Ops(r) \cap NetworkOps = {}

\* C5 as amended: such a run ends with a failed status set once and makes
\* no call at all; when both required inputs are supplied the message names
\* the ref, otherwise it names the missing input.
C5_InvalidRefFails ==
  \A r \in Runs :
    (Started(r) /\ RefInvalid(ref[r])) =>
      /\ pc[r] = "done"
      /\ Len(failed[r]) = 1
      /\ calls[r] = <<>>
      /\ IF missing[r] = "none"
         THEN NamesRef(failed[r][1], ref[r])
         ELSE \E k \in DOMAIN failed[r][1] : failed[r][1][k] = missing[r]

C5_Witness ==
  \E r \in Runs :
    /\ Started(r)
    /\ missing[r] = "none"
    /\ ~IsNone(ref[r])
    /\ Get(ref[r]) # <<>>
    /\ RefInvalid(ref[r])
    /\ Len(failed[r]) = 1

\* C6: when the listing of open pull requests returns no entry, the run has
\* stopped without any comment call, without a failed status and without
\* the feedback output; when it returns entries, every comment call of the
\* run is about the first entry.
C6_FirstPullRequestOrStop ==
  \A r \in Runs :
    ~IsNone(pullRequests[r]) =>
      IF Get(pullRequests[r]) = <<>>
      THEN /\ pc[r] = "done"
           /\ Ops(r) \cap CommentOps = {}
           /\ failed[r] = <<>>
           /\ output[r] = <<>>
      ELSE LET first == Get(pullRequests[r])[1].number
           IN \A k \in DOMAIN calls[r] :
                /\ calls[r][k].op \in {"issues.listComments", "issues.createComment"}
                     => calls[r][k].num = first
                /\ calls[r][k].op = "issues.updateComment"
                     => \E j \in DOMAIN comments :
                          comments[j].id = calls[r][k].num /\ comments[j].issue = first

C6_Witness ==
  \E r \in Runs :
    /\ ~IsNone(pullRequests[r])
    /\ Len(Get(pullRequests[r])) = 2
    /\ Succeeded(r, "issues.updateComment")

WriteOps == {"issues.updateComment", "issues.createComment"}

\* C7: a failing external step is the run's last call and is not retried,
\* and the run ends with the failed status set exactly once with a message
\* that contains the error's message; a run that was given its inputs and a
\* valid ref and in which no external step fails never sets the failed
\* status.
C7_FailuresPropagateOnce ==
  \A r \in Runs :
    /\ \A k \in DOMAIN calls[r] :
         ~calls[r][k].ok =>
           /\ k = Len(calls[r])
           /\ Cardinality(CallsOf(r, calls[r][k].op)) = 1
           /\ pc[r] = "done"
           /\ Len(failed[r]) = 1
           /\ EndsWith(failed[r][1], <<"error: ", calls[r][k].op>>)
    /\ ( /\ Started(r)
         /\ missing[r] = "none"
         /\ ~RefInvalid(ref[r])
         /\ \A k \in DOMAIN calls[r] : calls[r][k].ok )
       => failed[r] = <<>>

\* The response carries usable content: a first choice with a message with
\* a content.
Usable(resp) ==
  /\ resp.choices # <<>>
  /\ ~IsNone(resp.choices[1].message)
  /\ ~IsNone(Get(resp.choices[1].message).content)

ExpectedFeedback(resp) ==
  IF Usable(resp)
  THEN Trim(Get(Get(resp.choices[1].message).content))
  ELSE <<>>

\* C8: given a successful completion response, the review requester returns
\* the trimmed text of the first choice, or the empty string when the
\* response carries no usable content (no choice, no message, no content);
\* the run does not fail there, and a comment it then publishes has body
\* marker, newline, that feedback.
C8_FeedbackOrEmpty ==
  \A r \in Runs :
    ~IsNone(response[r]) =>
      /\ feedback[r] = ExpectedFeedback(Get(response[r]))
      /\ ~(pc[r] = "done" /\ Last(calls[r]).op = "createChatCompletion")
      /\ \A k \in DOMAIN calls[r] :
           calls[r][k].op \in WriteOps =>
             calls[r][k].body =
               Marker \o <<"\n">> \o ExpectedFeedback(Get(response[r]))

\* The place of each external call in the pipeline.
CallRank(op) ==
  CASE op = "git fetch" -> 1
    [] op = "git diff" -> 2
    [] op = "createChatCompletion" -> 3
    [] op = "pulls.list" -> 4
    [] op = "issues.listComments" -> 5
    [] op \in WriteOps -> 6

\* The place of each position of main in the pipeline.
PcRank(p) ==
  CASE p = "idle" -> 0
    [] p = "fetch" -> 1
    [] p = "diff" -> 2
    [] p = "review" -> 3
    [] p = "locate" -> 4
    [] p = "find" -> 5
    [] p = "publish" -> 6
    [] p = "done" -> 7

PostedOutcome(r) == \E k \in DOMAIN calls[r] : calls[r][k].op \in WriteOps /\ calls[r][k].ok

InformationalOutcome(r) == EmptyDiffRun(r) \/ pullRequests[r] = Some(<<>>)

FatalOutcome(r) == failed[r] # <<>>

ExactlyOne(a, b, c) == (a /\ ~b /\ ~c) \/ (~a /\ b /\ ~c) \/ (~a /\ ~b /\ c)

\* Jobs one after another, each kept running once started: an await
\* resolves or rejects, and the code that follows it runs.
FairSpec == SpecSeq /\ WF_vars(Step(1))

\* C9: every run issues its external calls in the fixed order fetch, diff,
\* completion, pull-request listing, comment listing, comment write, one
\* after the other with none repeated or skipped; its position never moves
\* back; once started it terminates; and it ends in exactly one of a posted
\* comment, an informational exit (empty diff or no open pull request) or a
\* fatal error with the failed status.
C9_LinearPipelineTerminates ==
  /\ [][\A r \in Runs :
         (pc'[r] # pc[r] /\ jobs' = jobs) => PcRank(pc'[r]) > PcRank(pc[r])]_vars
  /\ [](\A r \in Runs :
          /\ \A k \in DOMAIN calls[r] : CallRank(calls[r][k].op) = k
          /\ pc[r] = "done" =>
               ExactlyOne(PostedOutcome(r), InformationalOutcome(r), FatalOutcome(r)))
  /\ \A r \in Runs : Started(r) ~> (pc[r] = "done")

C9_Witness ==
  \E r \in Runs :
    /\ pc[r] = "done"
    /\ Len(calls[r]) = 6
    /\ PostedOutcome(r)
    /\ ~InformationalOutcome(r)
    /\ ~FatalOutcome(r)

\* ------------------------------------------------------ supporting facts
\* What holds of publishing an existing comment: when the page that the
\* listing returns holds a bot-authored marker comment, the first such
\* comment of the page is the one that is updated.
UpdatesFirstListed ==
  [][\A r \in Runs :
       LET page == FirstPage(CommentsOf(comments, Get(prNumber[r])))
           hits == { k \in DOMAIN page : IsBotMarker(page[k]) }
       IN /\ (ListingStep(r) /\ hits # {})
               => /\ pc'[r] = "publish"
                  /\ \E k \in hits :
                       /\ \A j \in hits : k <= j
                       /\ botComment'[r] = Some(page[k])
          /\ (WritingStep(r) /\ ~IsNone(botComment[r]))
               => Wrote(r, "issues.updateComment", Get(botComment[r]).id,
                        Marker \o <<"\n">> \o feedback[r])]_vars

\* What holds of failures: a failing call is the run's last call, it is not
\* retried, and the failed status is set once with the error's message.
FailingCallEndsRun ==
  \A r \in Runs :
    \A k \in DOMAIN calls[r] :
      ~calls[r][k].ok =>
        /\ k = Len(calls[r])
        /\ Cardinality(CallsOf(r, calls[r][k].op)) = 1
        /\ pc[r] = "done"
        /\ Len(failed[r]) = 1
        /\ EndsWith(failed[r][1], <<"error: ", calls[r][k].op>>)

\* What holds of the review requester: the TypeScript implementation returns
\* the trimmed first choice, or the empty string for a missing message or
\* content, whenever the response has a first choice.
FeedbackOfFirstChoice ==
  \A r \in Runs :
    (impl = "ts" /\ ~IsNone(response[r]) /\ Get(response[r]).choices # <<>>) =>
      /\ feedback[r] = ExpectedFeedback(Get(response[r]))
      /\ ~(pc[r] = "done" /\ Last(calls[r]).op = "createChatCompletion")
      /\ \A k \in DOMAIN calls[r] :
           calls[r][k].op \in WriteOps =>
             calls[r][k].body =
               Marker \o <<"\n">> \o ExpectedFeedback(Get(response[r]))

====
